---- MODULE Spec2Model ----
(***************************************************************************)
(* hyper_serde: wrappers that let Hyper / cookie value types be encoded    *)
(* and decoded through Serde.  The model follows src/src/lib.rs: the two   *)
(* wrappers De<T> and Ser<'a, T>, the convenience type Serde<T>, the free  *)
(* functions serialize / deserialize, and the five per-type codecs.        *)
(*                                                                         *)
(* A serializer is modelled by the log of the calls made on it, the tokens *)
(* it emitted (the serde_test token shapes of the unit tests of lib.rs)    *)
(* and the index of the call it fails at (0: it never fails).              *)
(* A deserializer is modelled by the sequence of tokens still unread.      *)
(***************************************************************************)
EXTENDS Integers, Sequences, FiniteSets, TLC

\* ------------------------------------------------------------- bounds
\* most raw values stored under one header name
MaxVals == 2
\* most entries of a map handed to the Headers decoder
MaxEntries == 2

\* ------------------------------------------------------------- results
Ok(v) == [ok |-> TRUE, val |-> v]
Err(e) == [ok |-> FALSE, err |-> e]

\* serde::Error constructors used by lib.rs
Error_custom(msg) == [kind |-> "Custom", msg |-> msg]
Error_invalid_value(msg) == [kind |-> "InvalidValue", msg |-> msg]

\* ------------------------------------------------------------- tokens
MapStart(n) == [t |-> "MapStart", len |-> n]
MapSep == [t |-> "MapSep"]
MapEnd == [t |-> "MapEnd"]
SeqStart(n) == [t |-> "SeqStart", len |-> n]
SeqSep == [t |-> "SeqSep"]
SeqEnd == [t |-> "SeqEnd"]
TupleStart(n) == [t |-> "TupleStart", len |-> n]
TupleSep == [t |-> "TupleSep"]
TupleEnd == [t |-> "TupleEnd"]
Str(s) == [t |-> "Str", s |-> s]
U8(b) == [t |-> "U8", v |-> b]
U16(n) == [t |-> "U16", v |-> n]
U64(n) == [t |-> "U64", v |-> n]
Unit == [t |-> "Unit"]
Bool == [t |-> "Bool"]

RECURSIVE Flatten(_)
Flatten(ss) == IF ss = <<>> THEN <<>> ELSE Head(ss) \o Flatten(Tail(ss))

\* one raw header value, a Vec<u8>, as the test of lib.rs spells it
BytesTokens(bytes) ==
    <<SeqStart(Len(bytes))>>
        \o Flatten([i \in 1..Len(bytes) |-> <<SeqSep, U8(bytes[i])>>])
        \o <<SeqEnd>>

\* the raw values of one header, a &[Vec<u8>]
RawTokens(raw) ==
    <<SeqStart(Len(raw))>>
        \o Flatten([i \in 1..Len(raw) |-> <<SeqSep>> \o BytesTokens(raw[i])])
        \o <<SeqEnd>>

\* ------------------------------------------------------------- Headers
\* hyper 0.9 Headers: a hash map keyed by the case-insensitive name; each
\* item keeps the name as first given and the raw values.
HeaderNames == {"Host", "host", "Via"}
RawValues == {<<97>>, <<98>>}

UniCase(n) == IF n = "Host" THEN "host" ELSE IF n = "Via" THEN "via" ELSE n

Headers_new == [k \in {} |-> [name |-> "", raw |-> <<>>]]

Headers_len(h) == Cardinality(DOMAIN h)

Headers_get_raw(h, name) ==
    IF UniCase(name) \in DOMAIN h THEN Ok(h[UniCase(name)].raw) ELSE Err("None")

\* set_raw replaces whatever is stored under the name
Headers_set_raw(h, name, value) ==
    [k \in DOMAIN h \cup {UniCase(name)} |->
        IF k = UniCase(name)
        THEN [name |-> IF k \in DOMAIN h THEN h[k].name ELSE name, raw |-> value]
        ELSE h[k]]

\* PartialEq for Headers: same number of names and, per name, equal raw values
Headers_eq(a, b) ==
    /\ Headers_len(a) = Headers_len(b)
    /\ \A k \in DOMAIN a :
          LET r == Headers_get_raw(b, a[k].name)
          IN  r.ok /\ r.val = a[k].raw

\* ------------------------------------------------------------- serializer
\* A serializer call and the tokens it emits when it succeeds.
Call(name, arg) == [call |-> name, arg |-> arg]

Emit(c) ==
    CASE c.call = "serialize_map" -> <<MapStart(c.arg)>>
      [] c.call = "serialize_map_key" -> <<MapSep, Str(c.arg)>>
      [] c.call = "serialize_map_value" -> RawTokens(c.arg)
      [] c.call = "serialize_map_end" -> <<MapEnd>>
      [] c.call = "serialize_str" -> <<Str(c.arg)>>
      [] c.call = "serialize_tuple" -> <<TupleStart(c.arg)>>
      [] c.call = "serialize_tuple_elt_u16" -> <<TupleSep, U16(c.arg)>>
      [] c.call = "serialize_tuple_elt_str" -> <<TupleSep, Str(c.arg)>>
      [] c.call = "serialize_tuple_end" -> <<TupleEnd>>

SerializerError == Error_custom("serializer failure")

\* A serializer: the calls made so far, the tokens emitted so far, and the
\* index of the call that fails.
Serializer(failAt) == [calls |-> <<>>, out |-> <<>>, failAt |-> failAt]

\* One call: it is logged; it emits its tokens unless it is the failing one.
Invoke(s, c) ==
    LET n == Len(s.calls) + 1
    IN  IF n = s.failAt
        THEN [ser |-> [s EXCEPT !.calls = Append(s.calls, c)],
              res |-> Err(SerializerError)]
        ELSE [ser |-> [s EXCEPT !.calls = Append(s.calls, c),
                                !.out = s.out \o Emit(c)],
              res |-> Ok("unit")]

\* ------------------------------------------------------------- Method
\* hyper::method::Method: nine standard methods and Extension(String).
StandardMethods ==
    {"OPTIONS", "GET", "POST", "PUT", "DELETE", "HEAD", "TRACE", "CONNECT", "PATCH"}
ExtensionTokens == {"", "GET", "FOO"}

Standard(name) == [variant |-> name, ext |-> ""]
Extension(s) == [variant |-> "Extension", ext |-> s]
Methods == {Standard(n) : n \in StandardMethods} \cup {Extension(s) : s \in ExtensionTokens}

\* AsRef<str> for Method
Method_as_ref(m) == IF m.variant = "Extension" THEN m.ext ELSE m.variant

\* FromStr for Method: the empty string is the only rejected input
Method_from_str(s) ==
    IF s = "" THEN Err("Invalid Method specified")
    ELSE IF s \in StandardMethods THEN Ok(Standard(s))
    ELSE Ok(Extension(s))

\* ------------------------------------------------------------- Mime
\* mime::Mime, shown by its canonical text; parsing folds case.
Mimes == {"application/json", "text/plain"}
MimeStrings == Mimes \cup {"Application/Json", "not a mime", ""}

Mime_to_string(m) == m

Mime_from_str(s) ==
    IF s \in Mimes THEN Ok(s)
    ELSE IF s = "Application/Json" THEN Ok("application/json")
    ELSE Err("()")

ContentType(m) == [mime |-> m]

\* ------------------------------------------------------------- Cookie
\* cookie::Cookie.  A cookie string is the sequence of its ';'-separated
\* segments, each either key=value or a bare word.
Some(x) == <<x>>
None == <<>>
Pair(k, v) == [k |-> k, eq |-> TRUE, v |-> v]
Word(k) == [k |-> k, eq |-> FALSE, v |-> ""]

Cookie(name, value, secure, httponly, path, domain, max_age) ==
    [name |-> name, value |-> value, secure |-> secure, httponly |-> httponly,
     path |-> path, domain |-> domain, max_age |-> max_age, custom |-> {}]

Cookies ==
    {Cookie(n, v, s, h, p, d, a) :
        n \in {"Hello"}, v \in {"World!", ""}, s \in BOOLEAN, h \in BOOLEAN,
        p \in {None, Some("/")}, d \in {None, Some("servo.org")},
        a \in {None, Some(42)}}

NumberToString(n) == IF n = 42 THEN "42" ELSE "0"
ParseNumber(s) == IF s = "42" THEN Some(42) ELSE IF s = "0" THEN Some(0) ELSE None

AsciiLower(s) ==
    CASE s \in {"Secure", "secure", "SECURE"} -> "secure"
      [] s \in {"HttpOnly", "httponly"} -> "httponly"
      [] s \in {"Path", "path"} -> "path"
      [] s \in {"Domain", "domain"} -> "domain"
      [] s \in {"Max-Age", "max-age"} -> "max-age"
      [] OTHER -> s

\* Display for Cookie
Cookie_to_string(c) ==
    <<Pair(c.name, c.value)>>
        \o (IF c.httponly THEN <<Word("HttpOnly")>> ELSE <<>>)
        \o (IF c.secure THEN <<Word("Secure")>> ELSE <<>>)
        \o (IF c.path # None THEN <<Pair("Path", c.path[1])>> ELSE <<>>)
        \o (IF c.domain # None THEN <<Pair("Domain", c.domain[1])>> ELSE <<>>)
        \o (IF c.max_age # None
            THEN <<Pair("Max-Age", NumberToString(c.max_age[1]))>> ELSE <<>>)

\* one attribute segment applied to the cookie under construction
Cookie_attr(c, seg) ==
    LET k == AsciiLower(seg.k)
    IN  IF ~seg.eq
        THEN IF k = "secure" THEN [c EXCEPT !.secure = TRUE]
             ELSE IF k = "httponly" THEN [c EXCEPT !.httponly = TRUE]
             ELSE c
        ELSE CASE k = "max-age" ->
                    IF ParseNumber(seg.v) = None THEN c
                    ELSE [c EXCEPT !.max_age = ParseNumber(seg.v)]
               [] k = "domain" ->
                    IF seg.v = "" THEN c ELSE [c EXCEPT !.domain = Some(seg.v)]
               [] k = "path" -> [c EXCEPT !.path = Some(seg.v)]
               [] OTHER -> [c EXCEPT !.custom = @ \cup {<<seg.k, seg.v>>}]

RECURSIVE Cookie_attrs(_, _)
Cookie_attrs(c, segs) ==
    IF segs = <<>> THEN c ELSE Cookie_attrs(Cookie_attr(c, Head(segs)), Tail(segs))

\* Cookie::parse: the first segment must be name=value with a name
Cookie_parse(s) ==
    IF ~Head(s).eq \/ Head(s).k = "" THEN Err("()")
    ELSE Ok(Cookie_attrs(Cookie(Head(s).k, Head(s).v, FALSE, FALSE, None, None, None),
                         Tail(s)))

CookieStrings ==
    {Cookie_to_string(c) : c \in Cookies}
        \cup { <<Word("")>>, <<Word("Hello")>>, <<Pair("", "x")>>,
               <<Pair("a", "b"), Word("secure"), Pair("max-age", "zz")>>,
               <<Pair("a", "b"), Pair("Domain", ""), Pair("Path", "/x")>> }

\* ------------------------------------------------------------- RawStatus
\* hyper::http::RawStatus(u16, Cow<str>)
U16Max == 65535
StatusCodes == {0, 99, 200, 999, 1000, U16Max}
Reasons == {"OK", ""}
RawStatus(code, reason) == [code |-> code, reason |-> reason]
RawStatuses == {RawStatus(c, r) : c \in StatusCodes, r \in Reasons}

\* ------------------------------------------------------------- values
\* a value together with the type that selects the trait implementation
Val(ty, v) == [ty |-> ty, v |-> v]

\* ------------------------------------------------------------- Ser
\* Ser<'a, T>(&'a T)
Ser_new(x) == [Ser |-> x]

\* Serialize for Ser<ContentType>: the Mime serializes as its text
Ser_ContentType_serialize(ct, s) ==
    Invoke(s, Call("serialize_str", Mime_to_string(ct.mime)))

\* Serialize for Ser<Cookie>
Ser_Cookie_serialize(c, s) == Invoke(s, Call("serialize_str", Cookie_to_string(c)))

\* the loop with the result of serialize_map_key dropped instead of tried
RECURSIVE Ser_Headers_loop_no_try(_, _, _)
Ser_Headers_loop_no_try(h, iter, s) ==
    IF iter = <<>> THEN Invoke(s, Call("serialize_map_end", <<>>))
    ELSE LET name == h[Head(iter)].name
             value == Headers_get_raw(h, name).val
             k == Invoke(s, Call("serialize_map_key", name))
             v == Invoke(k.ser, Call("serialize_map_value", value))
         IN  IF ~v.res.ok THEN v
             ELSE Ser_Headers_loop_no_try(h, Tail(iter), v.ser)

\* the for loop of Serialize for Ser<Headers>, then serialize_map_end;
\* iter is the order in which the hash map yields its keys
RECURSIVE Ser_Headers_loop(_, _, _)
Ser_Headers_loop(h, iter, s) ==
    IF iter = <<>> THEN Invoke(s, Call("serialize_map_end", <<>>))
    ELSE LET name == h[Head(iter)].name
             value == Headers_get_raw(h, name).val
             k == Invoke(s, Call("serialize_map_key", name))
         IN  IF ~k.res.ok THEN k
             ELSE LET v == Invoke(k.ser, Call("serialize_map_value", value))
                  IN  IF ~v.res.ok THEN v
                      ELSE Ser_Headers_loop(h, Tail(iter), v.ser)

\* the number of raw values of h, all names together
RECURSIVE TotalValues(_, _)
TotalValues(h, keys) ==
    IF keys = {} THEN 0
    ELSE LET k == CHOOSE x \in keys : TRUE
         IN  Len(h[k].raw) + TotalValues(h, keys \ {k})

\* the map declared with the number of values instead of the number of names
Ser_Headers_serialize_values(h, iter, s) ==
    LET m == Invoke(s, Call("serialize_map", TotalValues(h, DOMAIN h)))
    IN  IF ~m.res.ok THEN m ELSE Ser_Headers_loop(h, iter, m.ser)

\* Serialize for Ser<Headers>
Ser_Headers_serialize(h, iter, s) ==
    LET m == Invoke(s, Call("serialize_map", Headers_len(h)))
    IN  IF ~m.res.ok THEN m ELSE Ser_Headers_loop(h, iter, m.ser)

\* Serialize for Ser<Method>
Ser_Method_serialize(m, s) == Invoke(s, Call("serialize_str", Method_as_ref(m)))

\* Serialize for Ser<RawStatus>: the pair (code, &reason) as a 2-tuple
Ser_RawStatus_serialize(st, s) ==
    LET a == Invoke(s, Call("serialize_tuple", 2))
    IN  IF ~a.res.ok THEN a
        ELSE LET b == Invoke(a.ser, Call("serialize_tuple_elt_u16", st.code))
             IN  IF ~b.res.ok THEN b
                 ELSE LET c == Invoke(b.ser, Call("serialize_tuple_elt_str", st.reason))
                      IN  IF ~c.res.ok THEN c
                          ELSE Invoke(c.ser, Call("serialize_tuple_end", <<>>))

\* Ser<T>::serialize, selected by T
Ser_serialize(w, iter, s) ==
    LET x == w.Ser
    IN  CASE x.ty = "ContentType" -> Ser_ContentType_serialize(x.v, s)
          [] x.ty = "Cookie" -> Ser_Cookie_serialize(x.v, s)
          [] x.ty = "Headers" -> Ser_Headers_serialize(x.v, iter, s)
          [] x.ty = "Method" -> Ser_Method_serialize(x.v, s)
          [] x.ty = "RawStatus" -> Ser_RawStatus_serialize(x.v, s)

\* pub fn serialize
serialize(x, iter, s) == Ser_serialize(Ser_new(x), iter, s)

\* the wrapper's result discarded, Ok(()) returned
Serde_serialize_discard(w, iter, s) ==
    [ser |-> Ser_serialize([Ser |-> w.Serde], iter, s).ser, res |-> Ok("unit")]

\* Serde<T>(pub T) and Serialize for Serde<T>
Serde(x) == [Serde |-> x]

Serde_serialize(w, iter, s) == Ser_serialize([Ser |-> w.Serde], iter, s)

\* ------------------------------------------------------------- deserializer
\* A deserializer is the sequence of unread tokens; every read returns its
\* result and the tokens left.
R(res, rest) == [res |-> res, rest |-> rest]

Error_end_of_stream == [kind |-> "EndOfStream", msg |-> ""]
Error_invalid_type(tok) == [kind |-> "InvalidType", msg |-> tok.t]
Error_unexpected_token(tok) == [kind |-> "UnexpectedToken", msg |-> tok.t]

\* String::deserialize / deserialize_string: a Str token is handed to visit_str
De_str(d) ==
    IF d = <<>> THEN R(Err(Error_end_of_stream), d)
    ELSE IF Head(d).t = "Str" THEN R(Ok(Head(d).s), Tail(d))
    ELSE R(Err(Error_invalid_type(Head(d))), Tail(d))

De_u8(d) ==
    IF d = <<>> THEN R(Err(Error_end_of_stream), d)
    ELSE IF Head(d).t = "U8" THEN R(Ok(Head(d).v), Tail(d))
    ELSE R(Err(Error_invalid_type(Head(d))), Tail(d))

\* u16::deserialize: any unsigned token whose value fits 16 bits
De_u16(d) ==
    IF d = <<>> THEN R(Err(Error_end_of_stream), d)
    ELSE IF Head(d).t \in {"U16", "U64"} /\ Head(d).v <= U16Max
         THEN R(Ok(Head(d).v), Tail(d))
    ELSE R(Err(Error_invalid_type(Head(d))), Tail(d))

\* Vec<u8>::deserialize: elements until the sequence ends, then its end
RECURSIVE De_bytes_loop(_, _)
De_bytes_loop(d, acc) ==
    IF d = <<>> THEN R(Err(Error_end_of_stream), d)
    ELSE IF Head(d).t = "SeqSep"
         THEN LET e == De_u8(Tail(d))
              IN  IF ~e.res.ok THEN e
                  ELSE De_bytes_loop(e.rest, Append(acc, e.res.val))
    ELSE IF Head(d).t = "SeqEnd" THEN R(Ok(acc), Tail(d))
    ELSE R(Err(Error_unexpected_token(Head(d))), Tail(d))

De_bytes(d) ==
    IF d = <<>> THEN R(Err(Error_end_of_stream), d)
    ELSE IF Head(d).t = "SeqStart" THEN De_bytes_loop(Tail(d), <<>>)
    ELSE R(Err(Error_invalid_type(Head(d))), Tail(d))

\* Vec<Vec<u8>>::deserialize
RECURSIVE De_raw_loop(_, _)
De_raw_loop(d, acc) ==
    IF d = <<>> THEN R(Err(Error_end_of_stream), d)
    ELSE IF Head(d).t = "SeqSep"
         THEN LET e == De_bytes(Tail(d))
              IN  IF ~e.res.ok THEN e
                  ELSE De_raw_loop(e.rest, Append(acc, e.res.val))
    ELSE IF Head(d).t = "SeqEnd" THEN R(Ok(acc), Tail(d))
    ELSE R(Err(Error_unexpected_token(Head(d))), Tail(d))

De_raw(d) ==
    IF d = <<>> THEN R(Err(Error_end_of_stream), d)
    ELSE IF Head(d).t = "SeqStart" THEN De_raw_loop(Tail(d), <<>>)
    ELSE R(Err(Error_invalid_type(Head(d))), Tail(d))

\* MapVisitor::visit::<String, Vec<Vec<u8>>>: Some((key, value)), or None
\* when the map has no more entries
MapVisitor_visit(d) ==
    IF d = <<>> THEN R(Ok(None), d)
    ELSE IF Head(d).t = "MapSep"
         THEN LET k == De_str(Tail(d))
              IN  IF ~k.res.ok THEN k
                  ELSE LET v == De_raw(k.rest)
                       IN  IF ~v.res.ok THEN v
                           ELSE R(Ok(Some(<<k.res.val, v.res.val>>)), v.rest)
    ELSE IF Head(d).t = "MapEnd" THEN R(Ok(None), d)
    ELSE R(Err(Error_unexpected_token(Head(d))), Tail(d))

\* MapVisitor::end
MapVisitor_end(d) ==
    IF d = <<>> THEN R(Err(Error_end_of_stream), d)
    ELSE IF Head(d).t = "MapEnd" THEN R(Ok("unit"), Tail(d))
    ELSE R(Err(Error_unexpected_token(Head(d))), Tail(d))

\* ------------------------------------------------------------- De
\* De<T>(T)
De(x) == [De |-> x]
De_into_inner(w) == w.De

\* Mime::deserialize
Mime_deserialize(d) ==
    LET s == De_str(d)
    IN  IF ~s.res.ok THEN s
        ELSE LET m == Mime_from_str(s.res.val)
             IN  IF m.ok THEN R(Ok(m.val), s.rest)
                 ELSE R(Err(Error_custom("Invalid serialized mime")), s.rest)

\* Deserialize for De<ContentType>
De_ContentType_deserialize(d) ==
    LET m == Mime_deserialize(d)
    IN  IF m.res.ok THEN R(Ok(De(ContentType(m.res.val))), m.rest) ELSE m

\* CookieVisitor::visit_str
CookieVisitor_visit_str(v) ==
    LET c == Cookie_parse(v)
    IN  IF c.ok THEN Ok(De(c.val))
        ELSE Err(Error_custom("could not deserialize cookie"))

\* Deserialize for De<Cookie>
De_Cookie_deserialize(d) ==
    LET s == De_str(d)
    IN  IF ~s.res.ok THEN s ELSE R(CookieVisitor_visit_str(s.res.val), s.rest)

\* a visitor without visit_unit: the default rejects the unit
HeadersVisitor_no_visit_unit == Err([kind |-> "InvalidType", msg |-> "Unit"])

\* HeadersVisitor::visit_unit
HeadersVisitor_visit_unit == Ok(De(Headers_new))

\* the loop ended by a failing entry as if the map had ended, the headers
\* read so far returned
RECURSIVE HeadersVisitor_visit_map_partial(_, _)
HeadersVisitor_visit_map_partial(d, headers) ==
    LET e == MapVisitor_visit(d)
    IN  IF ~e.res.ok THEN R(Ok(De(headers)), e.rest)
        ELSE IF e.res.val = None
             THEN LET end == MapVisitor_end(e.rest)
                  IN  IF ~end.res.ok THEN end ELSE R(Ok(De(headers)), end.rest)
        ELSE HeadersVisitor_visit_map_partial(
                 e.rest, Headers_set_raw(headers, e.res.val[1][1], e.res.val[1][2]))

\* the loop without the call of visitor.end()
RECURSIVE HeadersVisitor_visit_map_no_end(_, _)
HeadersVisitor_visit_map_no_end(d, headers) ==
    LET e == MapVisitor_visit(d)
    IN  IF ~e.res.ok THEN e
        ELSE IF e.res.val = None THEN R(Ok(De(headers)), e.rest)
        ELSE HeadersVisitor_visit_map_no_end(
                 e.rest, Headers_set_raw(headers, e.res.val[1][1], e.res.val[1][2]))

\* HeadersVisitor::visit_map from the while loop on; headers is the
\* collection filled so far
RECURSIVE HeadersVisitor_visit_map(_, _)
HeadersVisitor_visit_map(d, headers) ==
    LET e == MapVisitor_visit(d)
    IN  IF ~e.res.ok THEN e
        ELSE IF e.res.val = None
             THEN LET end == MapVisitor_end(e.rest)
                  IN  IF ~end.res.ok THEN end ELSE R(Ok(De(headers)), end.rest)
        ELSE HeadersVisitor_visit_map(
                 e.rest, Headers_set_raw(headers, e.res.val[1][1], e.res.val[1][2]))

\* Deserialize for De<Headers>: deserialize_map hands a unit to visit_unit
\* and a map to visit_map
De_Headers_deserialize(d) ==
    IF d = <<>> THEN R(Err(Error_end_of_stream), d)
    ELSE IF Head(d).t = "Unit" THEN R(HeadersVisitor_visit_unit, Tail(d))
    ELSE IF Head(d).t = "MapStart" THEN HeadersVisitor_visit_map(Tail(d), Headers_new)
    ELSE R(Err(Error_invalid_type(Head(d))), Tail(d))

\* a rejected string taken as an extension method
MethodVisitor_visit_str_lenient(v) ==
    LET m == Method_from_str(v)
    IN  IF m.ok THEN Ok(De(m.val)) ELSE Ok(De(Extension(v)))

\* MethodVisitor::visit_str
MethodVisitor_visit_str(v) ==
    LET m == Method_from_str(v)
    IN  IF m.ok THEN Ok(De(m.val)) ELSE Err(Error_invalid_value(m.err))

\* Deserialize for De<Method>
De_Method_deserialize(d) ==
    LET s == De_str(d)
    IN  IF ~s.res.ok THEN s ELSE R(MethodVisitor_visit_str(s.res.val), s.rest)

\* one element of the (u16, Cow<str>) tuple: its separator, then the value
TupleVisitor_visit_u16(d) ==
    IF d = <<>> THEN R(Ok(None), d)
    ELSE IF Head(d).t = "TupleSep"
         THEN LET e == De_u16(Tail(d))
              IN  IF e.res.ok THEN R(Ok(Some(e.res.val)), e.rest) ELSE e
    ELSE IF Head(d).t = "TupleEnd" THEN R(Ok(None), d)
    ELSE R(Err(Error_unexpected_token(Head(d))), Tail(d))

TupleVisitor_visit_str(d) ==
    IF d = <<>> THEN R(Ok(None), d)
    ELSE IF Head(d).t = "TupleSep"
         THEN LET e == De_str(Tail(d))
              IN  IF e.res.ok THEN R(Ok(Some(e.res.val)), e.rest) ELSE e
    ELSE IF Head(d).t = "TupleEnd" THEN R(Ok(None), d)
    ELSE R(Err(Error_unexpected_token(Head(d))), Tail(d))

TupleVisitor_end(d) ==
    IF d = <<>> THEN R(Err(Error_end_of_stream), d)
    ELSE IF Head(d).t = "TupleEnd" THEN R(Ok("unit"), Tail(d))
    ELSE R(Err(Error_unexpected_token(Head(d))), Tail(d))

\* <(u16, Cow<str>)>::deserialize
De_tuple(d) ==
    IF d = <<>> THEN R(Err(Error_end_of_stream), d)
    ELSE IF Head(d).t # "TupleStart" THEN R(Err(Error_invalid_type(Head(d))), Tail(d))
    ELSE LET a == TupleVisitor_visit_u16(Tail(d))
         IN  IF ~a.res.ok THEN a
             ELSE IF a.res.val = None THEN R(Err(Error_end_of_stream), a.rest)
             ELSE LET b == TupleVisitor_visit_str(a.rest)
                  IN  IF ~b.res.ok THEN b
                      ELSE IF b.res.val = None THEN R(Err(Error_end_of_stream), b.rest)
                      ELSE LET end == TupleVisitor_end(b.rest)
                           IN  IF ~end.res.ok THEN end
                               ELSE R(Ok(<<a.res.val[1], b.res.val[1]>>), end.rest)

\* Deserialize for De<RawStatus>: no check of the code
De_RawStatus_deserialize(d) ==
    LET t == De_tuple(d)
    IN  IF ~t.res.ok THEN t
        ELSE R(Ok(De(RawStatus(t.res.val[1], t.res.val[2]))), t.rest)

\* De<T>::deserialize, selected by T
De_deserialize(ty, d) ==
    CASE ty = "ContentType" -> De_ContentType_deserialize(d)
      [] ty = "Cookie" -> De_Cookie_deserialize(d)
      [] ty = "Headers" -> De_Headers_deserialize(d)
      [] ty = "Method" -> De_Method_deserialize(d)
      [] ty = "RawStatus" -> De_RawStatus_deserialize(d)

\* pub fn deserialize
deserialize(ty, d) ==
    LET r == De_deserialize(ty, d)
    IN  IF r.res.ok THEN R(Ok(De_into_inner(r.res.val)), r.rest) ELSE r

\* Deserialize for Serde<T>
Serde_deserialize(ty, d) ==
    LET r == De_deserialize(ty, d)
    IN  IF r.res.ok THEN R(Ok(Serde(De_into_inner(r.res.val))), r.rest) ELSE r

\* ------------------------------------------------------------- inputs
\* the lists of raw values a header can hold
Raws == UNION {[1..n -> RawValues] : n \in 0..MaxVals}

HeaderKeys == {UniCase(n) : n \in HeaderNames}
HeaderItems == {[name |-> n, raw |-> r] : n \in HeaderNames, r \in Raws}

\* every header collection over the names: each key holds a name it folds from
AllHeaders ==
    UNION {{h \in [K -> HeaderItems] : \A k \in K : UniCase(h[k].name) = k} :
              K \in SUBSET HeaderKeys}

\* the orders in which a hash map may yield the keys of h
IterOrders(h) ==
    {o \in [1..Cardinality(DOMAIN h) -> DOMAIN h] :
        \A i, j \in DOMAIN o : i # j => o[i] # o[j]}

AllValues ==
    {Val("Headers", h) : h \in AllHeaders}
        \cup {Val("Method", m) : m \in Methods}
        \cup {Val("ContentType", ContentType(m)) : m \in Mimes}
        \cup {Val("Cookie", c) : c \in Cookies}
        \cup {Val("RawStatus", st) : st \in RawStatuses}

Types == {"Headers", "Method", "ContentType", "Cookie", "RawStatus"}

ValueOrders(x) == IF x.ty = "Headers" THEN IterOrders(x.v) ELSE {<<>>}

\* the serializer calls a full encoding of x makes
NumCalls(x) ==
    IF x.ty = "Headers" THEN 2 * Headers_len(x.v) + 2
    ELSE IF x.ty = "RawStatus" THEN 4 ELSE 1

\* a map handed to the Headers decoder: entries (name, raw values), in order;
\* the same name may come more than once.  One-entry maps take every list of
\* raw values, longer maps these three.
EntryRaws == {<< <<97>> >>, << <<98>> >>, << <<97>>, <<98>> >>}
Docs ==
    {<< <<n, r>> >> : n \in HeaderNames, r \in Raws}
        \cup UNION {[1..n -> HeaderNames \X EntryRaws] : n \in 0..MaxEntries}

DocTokens(doc) ==
    <<MapStart(Len(doc))>>
        \o Flatten([i \in 1..Len(doc) |->
                       <<MapSep, Str(doc[i][1])>> \o RawTokens(doc[i][2])])
        \o <<MapEnd>>

\* the maps that are damaged at every position
DamagedEntries == {<<n, r>> : n \in {"Host", "Via"}, r \in {<< <<97>> >>, << <<97>>, <<98>> >>}}
DamagedDocs == UNION {[1..n -> DamagedEntries] : n \in 0..MaxEntries}

StatusTokens(codeToken, reason) ==
    <<TupleStart(2), TupleSep, codeToken, TupleSep, Str(reason), TupleEnd>>

\* well-formed token streams of one value of each type
CleanInputs(ty) ==
    CASE ty = "Headers" -> {[doc |-> d, tokens |-> DocTokens(d)] : d \in Docs}
                             \cup {[doc |-> <<>>, tokens |-> <<Unit>>]}
      [] ty = "Method" ->
            {[doc |-> <<>>, tokens |-> <<Str(s)>>] :
                s \in StandardMethods \cup ExtensionTokens \cup {"get"}}
      [] ty = "ContentType" -> {[doc |-> <<>>, tokens |-> <<Str(s)>>] : s \in MimeStrings}
      [] ty = "Cookie" -> {[doc |-> <<>>, tokens |-> <<Str(s)>>] : s \in CookieStrings}
      [] ty = "RawStatus" ->
            {[doc |-> <<>>, tokens |-> StatusTokens(c, r)] :
                c \in {U16(n) : n \in StatusCodes}
                        \cup {U64(n) : n \in {200, U16Max + 1}},
                r \in Reasons}

DamagedInputs(ty) ==
    IF ty = "Headers"
    THEN {[doc |-> d, tokens |-> DocTokens(d)] : d \in DamagedDocs}
    ELSE IF ty = "RawStatus"
         THEN {[doc |-> <<>>, tokens |-> StatusTokens(U16(200), "OK")]}
    ELSE IF ty = "Method" THEN {[doc |-> <<>>, tokens |-> <<Str("PUT")>>]}
    ELSE {}

\* how a token stream is made from a well-formed one:
\*   none   as it is            trail  with one more token after it
\*   trunc  only its first at tokens     bad  its token at replaced
Damage(tokens, kind, at) ==
    CASE kind = "none" -> tokens
      [] kind = "trail" -> tokens \o <<Bool>>
      [] kind = "trunc" -> SubSeq(tokens, 1, at)
      [] kind = "bad" -> [tokens EXCEPT ![at] = Bool]
      [] kind = "roundtrip" -> tokens

Made(ty, kind, at, in) == [ty |-> ty, kind |-> kind, at |-> at, doc |-> in.doc, clean |-> in.tokens]

\* every truncation and every one-token replacement of the streams of ty
DamagedOf(ty) ==
    UNION {UNION {{Made(ty, "trunc", at - 1, in), Made(ty, "bad", at, in)} :
                     at \in 1..Len(in.tokens)} :
              in \in DamagedInputs(ty)}

\* the inputs of a decode call
Inputs ==
    UNION {{Made(ty, k, 0, in) : k \in {"none", "trail"}, in \in CleanInputs(ty)}
              \cup DamagedOf(ty) : ty \in Types}

\* ------------------------------------------------------------- state
VARIABLES
    pc,       \* "idle", "serialized" or "deserialized"
    api,      \* the entry point called
    value,    \* the value handed to serialize
    iter,     \* the order in which the header map yielded its names
    ser,      \* the serializer after the call
    serRes,   \* what serialize returned
    made,     \* how the decoder's input was made
    input,    \* the tokens handed to deserialize
    deRes     \* what deserialize returned, and the tokens left unread

vars == <<pc, api, value, iter, ser, serRes, made, input, deRes>>

NoInput == [ty |-> "none", kind |-> "none", at |-> 0, doc |-> <<>>, clean |-> <<>>]

Init ==
    /\ pc = "idle"
    /\ api = "none"
    /\ value = Val("none", <<>>)
    /\ iter = <<>>
    /\ ser = Serializer(0)
    /\ serRes = Ok("unit")
    /\ made = NoInput
    /\ input = <<>>
    /\ deRes = R(Ok("unit"), <<>>)

Serialized(a, r, x, it) ==
    /\ pc' = "serialized"
    /\ api' = a
    /\ value' = x
    /\ iter' = it
    /\ ser' = r.ser
    /\ serRes' = r.res
    /\ UNCHANGED <<made, input, deRes>>

\* Ser::new(&x).serialize(&mut s)
Call_Ser_serialize ==
    /\ pc = "idle"
    /\ \E x \in AllValues : \E it \in ValueOrders(x) : \E f \in 0..NumCalls(x) :
          Serialized("Ser", Ser_serialize(Ser_new(x), it, Serializer(f)), x, it)

\* hyper_serde::serialize(&x, &mut s)
Call_serialize ==
    /\ pc = "idle"
    /\ \E x \in AllValues : \E it \in ValueOrders(x) : \E f \in 0..NumCalls(x) :
          Serialized("serialize", serialize(x, it, Serializer(f)), x, it)

\* Serde(x).serialize(&mut s)
Call_Serde_serialize ==
    /\ pc = "idle"
    /\ \E x \in AllValues : \E it \in ValueOrders(x) : \E f \in 0..NumCalls(x) :
          Serialized("Serde", Serde_serialize(Serde(x), it, Serializer(f)), x, it)

Deserialized(a, m, r) ==
    /\ pc' = "deserialized"
    /\ api' = a
    /\ made' = m
    /\ input' = Damage(m.clean, m.kind, m.at)
    /\ deRes' = r

\* De::<T>::deserialize(&mut d)
Call_De_deserialize ==
    /\ pc = "idle"
    /\ \E m \in Inputs :
          Deserialized("De", m, De_deserialize(m.ty, Damage(m.clean, m.kind, m.at)))
    /\ UNCHANGED <<value, iter, ser, serRes>>

\* hyper_serde::deserialize::<T, _>(&mut d)
Call_deserialize ==
    /\ pc = "idle"
    /\ \E m \in Inputs :
          Deserialized("deserialize", m, deserialize(m.ty, Damage(m.clean, m.kind, m.at)))
    /\ UNCHANGED <<value, iter, ser, serRes>>

\* Serde::<T>::deserialize(&mut d)
Call_Serde_deserialize ==
    /\ pc = "idle"
    /\ \E m \in Inputs :
          Deserialized("Serde", m, Serde_deserialize(m.ty, Damage(m.clean, m.kind, m.at)))
    /\ UNCHANGED <<value, iter, ser, serRes>>

\* the tokens a successful serialize emitted are handed to the decoder, as
\* the tests do with assert_ser_tokens then assert_de_tokens
RoundTrip ==
    /\ pc = "serialized"
    /\ serRes.ok
    /\ LET m == [ty |-> value.ty, kind |-> "roundtrip", at |-> 0,
                 doc |-> <<>>, clean |-> ser.out]
       IN  /\ pc' = "deserialized"
           /\ api' = "De"
           /\ made' = m
           /\ input' = ser.out
           /\ deRes' = De_deserialize(value.ty, ser.out)
    /\ UNCHANGED <<value, iter, ser, serRes>>

Next ==
    \/ Call_Ser_serialize
    \/ Call_serialize
    \/ Call_Serde_serialize
    \/ Call_De_deserialize
    \/ Call_deserialize
    \/ Call_Serde_deserialize
    \/ RoundTrip

Spec == Init /\ [][Next]_vars

\* ------------------------------------------------------------- properties
\* the decoded value, out of the wrapper the entry point returns it in
Inner ==
    CASE api = "De" -> De_into_inner(deRes.res.val)
      [] api = "deserialize" -> deRes.res.val
      [] api = "Serde" -> deRes.res.val.Serde

\* the equality of the type: PartialEq for Headers, structural otherwise
ValueEq(ty, a, b) == IF ty = "Headers" THEN Headers_eq(a, b) /\ Headers_eq(b, a) ELSE a = b

Decoding(ty) == pc = "deserialized" /\ made.ty = ty
Encoding(ty) == pc = "serialized" /\ value.ty = ty

\* C1: round trip: decoding the tokens encode(v) emitted succeeds and
\* yields a value equal to v, for every value v of every supported type.
C1_RoundTrip ==
    (pc = "deserialized" /\ made.kind = "roundtrip")
        => deRes.res.ok /\ ValueEq(value.ty, value.v, Inner)

\* The round trip does hold of every header collection and every raw status.
RoundTrip_Headers_RawStatus ==
    (pc = "deserialized" /\ made.kind = "roundtrip" /\ value.ty \in {"Headers", "RawStatus"})
        => deRes.res.ok /\ ValueEq(value.ty, value.v, Inner)

\* the values of the entries of doc whose name folds to key, in input order
RECURSIVE Appended(_, _)
Appended(doc, key) ==
    IF doc = <<>> THEN <<>>
    ELSE (IF UniCase(Head(doc)[1]) = key THEN Head(doc)[2] ELSE <<>>)
             \o Appended(Tail(doc), key)

\* C2: Headers decode appends: the collection decoded from a map holds,
\* under each name, the values of every entry of that name, in input order.
C2_DecodeAppends ==
    (Decoding("Headers") /\ made.kind = "none" /\ input[1].t = "MapStart" /\ deRes.res.ok)
        => \A i \in 1..Len(made.doc) :
              LET r == Headers_get_raw(Inner, made.doc[i][1])
              IN  r.ok /\ r.val = Appended(made.doc, UniCase(made.doc[i][1]))

\* the map entries Ser<Headers> is to emit, in iteration order
EntriesOf(h, it) == [i \in 1..Len(it) |-> <<h[it[i]].name, h[it[i]].raw>>]

KeyCalls(calls) == {i \in 1..Len(calls) : calls[i].call = "serialize_map_key"}

\* C3: Headers encode shape: one map entry per distinct name, the declared
\* length is the number of distinct names and of entries emitted, and each
\* entry's value is the whole sequence of raw values stored under the name.
C3_EncodeShape ==
    (Encoding("Headers") /\ serRes.ok)
        => LET h == value.v
               n == Cardinality({UniCase(h[k].name) : k \in DOMAIN h})
               keys == KeyCalls(ser.calls)
           IN  /\ ser.out[1] = MapStart(n)
               /\ Cardinality(keys) = n
               /\ Cardinality({i \in 1..Len(ser.out) : ser.out[i].t = "MapSep"}) = n
               /\ \A k \in DOMAIN h :
                     /\ Cardinality({i \in keys : ser.calls[i].arg = h[k].name}) = 1
                     /\ \A i \in keys :
                           ser.calls[i].arg = h[k].name
                               => /\ ser.calls[i + 1].call = "serialize_map_value"
                                  /\ ser.calls[i + 1].arg = h[k].raw
               /\ ser.out = DocTokens(EntriesOf(h, iter))

C3_Witness ==
    /\ Encoding("Headers")
    /\ serRes.ok
    /\ Headers_len(value.v) = 1
    /\ \E k \in DOMAIN value.v : Len(value.v[k].raw) = 2
    /\ ser.out[1] = MapStart(1)

\* C4: status boundary: a status whose code is 0 or above 999 fails to
\* decode with InvalidValue; code 200 decodes to a status with code 200.
C4_StatusBoundary ==
    (Decoding("RawStatus") /\ made.kind = "none")
        => LET code == input[3].v
           IN  /\ (code = 0 \/ code > 999)
                     => ~deRes.res.ok /\ deRes.res.err.kind = "InvalidValue"
               /\ code = 200 => deRes.res.ok /\ Inner.code = 200

\* C5: empty headers: an empty collection encodes to a map start of length
\* 0 and the map end, nothing else; a unit token and a map of no entries
\* each decode to an empty collection.
C5_EmptyHeaders ==
    /\ (Encoding("Headers") /\ Headers_len(value.v) = 0 /\ serRes.ok)
          => ser.out = <<MapStart(0), MapEnd>>
    /\ (Decoding("Headers") /\ made.kind \in {"none", "roundtrip"}
          /\ (input = <<Unit>> \/ (Len(input) = 2 /\ input[1].t = "MapStart")))
          => deRes.res.ok /\ DOMAIN Inner = {} /\ Inner = Headers_new

C5_Witness ==
    /\ Decoding("Headers")
    /\ input = <<Unit>>
    /\ deRes.res.ok
    /\ Headers_len(Inner) = 0

\* C6: no partial success on headers decode: a failing read of an entry or
\* of the map end ends the decode at once with that error, nothing further
\* is read and no collection is returned; a collection is returned only
\* when every entry and the map end were read.
C6_NoPartialSuccess ==
    Decoding("Headers")
        => /\ made.kind = "bad"
                => /\ ~deRes.res.ok
                   /\ DOMAIN deRes.res = {"ok", "err"}
                   /\ deRes.res.err.kind \in {"InvalidType", "UnexpectedToken"}
                   /\ deRes.res.err.msg = "Bool"
                   /\ deRes.rest = SubSeq(input, made.at + 1, Len(input))
           /\ made.kind = "trunc"
                => /\ ~deRes.res.ok
                   /\ DOMAIN deRes.res = {"ok", "err"}
                   /\ deRes.res.err = Error_end_of_stream
                   /\ deRes.rest = <<>>
           /\ deRes.res.ok => made.kind \in {"none", "trail", "roundtrip"}

C6_Witness ==
    /\ Decoding("Headers")
    /\ made.kind = "bad"
    /\ Len(made.doc) = 2
    /\ made.clean[made.at].t = "MapSep"
    /\ made.at > 2
    /\ ~deRes.res.ok

\* C7: unparsable strings are errors: a string the method parser rejects
\* fails with InvalidValue carrying the parser's message, one the cookie
\* parser rejects fails with a custom-message error, neither yields a
\* value; a string the parser accepts yields exactly the parsed value.
C7_UnparsableStrings ==
    /\ (Decoding("Method") /\ made.kind = "none")
          => LET p == Method_from_str(input[1].s)
             IN  /\ (input[1].s = "") => ~p.ok
                 /\ p.ok => deRes.res.ok /\ Inner = p.val
                 /\ ~p.ok => /\ ~deRes.res.ok
                             /\ DOMAIN deRes.res = {"ok", "err"}
                             /\ deRes.res.err = Error_invalid_value(p.err)
    /\ (Decoding("Cookie") /\ made.kind = "none")
          => LET p == Cookie_parse(input[1].s)
             IN  /\ p.ok => deRes.res.ok /\ Inner = p.val
                 /\ ~p.ok => /\ ~deRes.res.ok
                             /\ DOMAIN deRes.res = {"ok", "err"}
                             /\ deRes.res.err.kind = "Custom"
                             /\ deRes.res.err.msg = "could not deserialize cookie"

C7_Witness ==
    /\ Decoding("Method")
    /\ input = <<Str("")>>
    /\ ~deRes.res.ok
    /\ deRes.res.err.kind = "InvalidValue"

\* C8: delegation: Serde<T> and the free functions emit the same tokens and
\* return the same result as Ser::new(&v).serialize, and the same value or
\* error as De::<T>::deserialize followed by into_inner.
C8_Delegation ==
    /\ pc = "serialized"
          => LET r == Ser_serialize(Ser_new(value), iter, Serializer(ser.failAt))
             IN  ser = r.ser /\ serRes = r.res
    /\ (pc = "deserialized" /\ made.kind # "roundtrip")
          => LET r == De_deserialize(made.ty, input)
             IN  /\ deRes.rest = r.rest
                 /\ deRes.res.ok = r.res.ok
                 /\ r.res.ok => Inner = De_into_inner(r.res.val)
                 /\ ~r.res.ok => deRes.res.err = r.res.err

C8_Witness ==
    /\ Decoding("Headers")
    /\ api = "Serde"
    /\ Len(made.doc) = 2
    /\ deRes.res.ok
    /\ Headers_len(Inner) = 2

\* C9: Headers encode call protocol: map start once, then per header a key
\* call and at once its value call, then map end once and last; the first
\* failing call ends serialize with that error and no further call is made;
\* serialize fails only when a serializer call fails.
C9_CallProtocol ==
    Encoding("Headers")
        => LET c == ser.calls
               n == Len(c)
               f == ser.failAt
               h == value.v
               total == 2 * Headers_len(h) + 2
           IN  /\ n >= 1
               /\ c[1].call = "serialize_map"
               /\ \A i \in 2..n :
                     /\ c[i].call \in {"serialize_map_key", "serialize_map_value",
                                        "serialize_map_end"}
                     /\ c[i].call = "serialize_map_key"
                           => /\ i % 2 = 0
                              /\ c[i].arg = h[iter[i \div 2]].name
                              /\ i < n => c[i + 1].call = "serialize_map_value"
                     /\ c[i].call = "serialize_map_value"
                           => /\ c[i - 1].call = "serialize_map_key"
                              /\ c[i].arg = h[iter[i \div 2]].raw
                     /\ c[i].call = "serialize_map_end" => i = n /\ i = total
               /\ f \in 1..total
                     => /\ ~serRes.ok
                        /\ serRes.err = SerializerError
                        /\ n = f
               /\ f = 0
                     => /\ serRes.ok
                        /\ n = total
                        /\ c[n].call = "serialize_map_end"
               /\ serRes.ok <=> f = 0

C9_Witness ==
    /\ Encoding("Headers")
    /\ Headers_len(value.v) = 2
    /\ ~serRes.ok
    /\ Len(ser.calls) = 3
    /\ ser.calls[3].call = "serialize_map_value"

\* C10: decode consumes exactly one value's tokens: handed the tokens of
\* one value, a successful decode leaves none unread, and it reads none of
\* what follows the value.
C10_ExactConsumption ==
    (pc = "deserialized" /\ deRes.res.ok)
        => /\ made.kind \in {"none", "roundtrip", "trail"}
           /\ made.kind \in {"none", "roundtrip"} => deRes.rest = <<>>
           /\ made.kind = "trail" => deRes.rest = <<Bool>>

C10_Witness ==
    /\ Decoding("Headers")
    /\ made.kind = "roundtrip"
    /\ Headers_len(value.v) = 2
    /\ deRes.res.ok
    /\ deRes.rest = <<>>
    /\ Len(input) > 2

====
